---- MODULE Spec2Model ----
(***************************************************************************)
(* geotorch.hurwitz.Hurwitz: the manifold of matrices whose eigenvalues    *)
(* have real part <= -alpha, parametrized by                               *)
(*     A = P (-1/2 Q + S) - alpha I     (Q, P positive semidefinite,       *)
(*                                       S skew-symmetric).                *)
(*                                                                         *)
(* Numbers are exact rationals (the floating-point rounding of torch and   *)
(* of the convex solver is not modelled).  A matrix is a record            *)
(* [num, den]: integer entries over one positive denominator, kept in      *)
(* lowest terms, so that equal matrices are equal values.  A tensor is a   *)
(* record [batch, mats]: its leading (batch) shape and its matrices in     *)
(* row-major order of the batch.  Matrices are 1x1 or 2x2: for these the   *)
(* eigenvalues are compared exactly with a rational bound.                 *)
(***************************************************************************)
EXTENDS Integers, Sequences, FiniteSets, TLC

VARIABLES req, self, raised, pt, last, memo

vars == <<req, self, raised, pt, last, memo>>

(***************************************************************************)
(* Bounds of the model.                                                    *)
(***************************************************************************)
\* sizes handed to the constructor have at most MaxRank dimensions ...
MaxRank == 3
\* ... each of 1..MaxDim
MaxDim == 3
\* alpha is a number of quarters: 0, the smallest step 1/4 and the largest
\* value MaxAlpha/4, with either sign
MaxAlpha == 4
\* entries of the unconstrained inputs X1, X2, X3 are at most MaxEntry in size
MaxEntry == 1
\* a target matrix A has integer entries of size at most MaxA
MaxA == 1
\* the solver's answers P have integer entries of size at most MaxP
MaxP == 2

(***************************************************************************)
(* Rational numbers and matrices.                                          *)
(***************************************************************************)
Abs(x) == IF x < 0 THEN -x ELSE x

RECURSIVE Gcd(_, _)
Gcd(a, b) == IF b = 0 THEN a ELSE Gcd(b, a % b)

\* the rational p/q, q > 0, in lowest terms
Rat(p, q) == LET g == Gcd(Abs(p), q) IN [num |-> p \div g, den |-> q \div g]

RLeq(a, b) == a.num * b.den <= b.num * a.den
RLess(a, b) == a.num * b.den < b.num * a.den
RNeg(a) == [num |-> -a.num, den |-> a.den]
RAdd(a, b) == Rat(a.num * b.den + b.num * a.den, a.den * b.den)

Dim(M) == Len(M.num)

\* the matrix num/den (of dimension at most 2) in lowest terms
Mat(num, den) ==
  LET n == Len(num)
      g == IF n = 1 THEN Gcd(den, Abs(num[1][1]))
           ELSE Gcd(Gcd(Gcd(Gcd(den, Abs(num[1][1])), Abs(num[1][2])),
                        Abs(num[2][1])), Abs(num[2][2]))
  IN [num |-> [i \in 1..n |-> [j \in 1..n |-> num[i][j] \div g]], den |-> den \div g]

\* torch.eye(n)
eye(n) == [num |-> [i \in 1..n |-> [j \in 1..n |-> IF i = j THEN 1 ELSE 0]], den |-> 1]

\* A + B
MAdd(A, B) ==
  Mat([i \in 1..Dim(A) |-> [j \in 1..Dim(A) |->
         A.num[i][j] * B.den + B.num[i][j] * A.den]], A.den * B.den)

\* c * A for a rational c
MScale(c, A) ==
  Mat([i \in 1..Dim(A) |-> [j \in 1..Dim(A) |-> c.num * A.num[i][j]]], c.den * A.den)

MSub(A, B) == MAdd(A, MScale(Rat(-1, 1), B))

\* A @ B (matrices of dimension at most 2)
MMul(A, B) ==
  LET n == Dim(A)
      dot(i, j) == IF n = 1 THEN A.num[i][1] * B.num[1][j]
                   ELSE A.num[i][1] * B.num[1][j] + A.num[i][2] * B.num[2][j]
  IN Mat([i \in 1..n |-> [j \in 1..n |-> dot(i, j)]], A.den * B.den)

\* A.T, A.transpose(-2, -1)
MT(A) == [num |-> [i \in 1..Dim(A) |-> [j \in 1..Dim(A) |-> A.num[j][i]]], den |-> A.den]

\* trace and determinant of the numerator
TrNum(A) == IF Dim(A) = 1 THEN A.num[1][1] ELSE A.num[1][1] + A.num[2][2]
DetNum(A) ==
  IF Dim(A) = 1 THEN A.num[1][1]
  ELSE A.num[1][1] * A.num[2][2] - A.num[1][2] * A.num[2][1]

\* torch.inverse(A), for an invertible A
MInv(A) ==
  LET d == DetNum(A)
      s == IF d < 0 THEN -1 ELSE 1
      adj == IF Dim(A) = 1 THEN <<<<1>>>>
             ELSE << <<A.num[2][2], -A.num[1][2]>>, <<-A.num[2][1], A.num[1][1]>> >>
  IN Mat([i \in 1..Dim(A) |-> [j \in 1..Dim(A) |-> s * A.den * adj[i][j]]], s * d)

IsSymmetric(A) == MT(A) = A
IsSkew(A) == MT(A) = MScale(Rat(-1, 1), A)
\* a symmetric matrix (of dimension at most 2) is positive semidefinite
IsPSD(A) ==
  /\ IsSymmetric(A)
  /\ \A i \in 1..Dim(A) : A.num[i][i] >= 0
  /\ DetNum(A) >= 0

(***************************************************************************)
(* Eigenvalues.  torch.linalg.eigvals gives the roots of the               *)
(* characteristic polynomial: the entry itself for a 1x1 matrix, and       *)
(* (tr +- sqrt(disc)) / 2 with disc = tr^2 - 4 det for a 2x2 matrix.  The  *)
(* roots are compared with a rational bound t without leaving the          *)
(* integers: a complex pair (disc < 0) has real part tr / 2; of a real     *)
(* pair the larger root is <= t iff 2t - tr >= 0 and disc <= (2t - tr)^2.  *)
(***************************************************************************)
\* (torch.real(torch.linalg.eigvals(A)) <= t).all()
EigRealAllLeq(A, t) ==
  IF Dim(A) = 1 THEN A.num[1][1] * t.den <= t.num * A.den
  ELSE LET tr == TrNum(A)
           disc == tr * tr - 4 * DetNum(A)
           gap == 2 * t.num * A.den - tr * t.den
       IN IF disc < 0 THEN gap >= 0
          ELSE gap >= 0 /\ disc * t.den * t.den <= gap * gap

\* every eigenvalue of A has real part < t
EigRealAllLess(A, t) ==
  IF Dim(A) = 1 THEN A.num[1][1] * t.den < t.num * A.den
  ELSE LET tr == TrNum(A)
           disc == tr * tr - 4 * DetNum(A)
           gap == 2 * t.num * A.den - tr * t.den
       IN IF disc < 0 THEN gap > 0
          ELSE gap > 0 /\ disc * t.den * t.den < gap * gap

(***************************************************************************)
(* Tensors: a batch of matrices.                                           *)
(***************************************************************************)
RECURSIVE Numel(_)
Numel(shape) == IF shape = <<>> THEN 1 ELSE Head(shape) * Numel(Tail(shape))

Tensor(batch, mats) == [batch |-> batch, mats |-> mats]

\* an unbatched matrix as a tensor
T1(M) == Tensor(<<>>, <<M>>)

\* the value of tensors that are absent (no return value, no instance)
NoTensor == Tensor(<<>>, <<>>)

\* the larger of two operands, and the k-th matrix of an operand: an unbatched
\* operand is broadcast over the batch of the other
Big(X, Y) == IF Len(X.mats) >= Len(Y.mats) THEN X ELSE Y
At(X, k) == IF Len(X.mats) = 1 THEN X.mats[1] ELSE X.mats[k]

\* X + Y, X - Y and X @ Y over the batch
TAdd(X, Y) ==
  Tensor(Big(X, Y).batch, [k \in 1..Len(Big(X, Y).mats) |-> MAdd(At(X, k), At(Y, k))])
TSub(X, Y) ==
  Tensor(Big(X, Y).batch, [k \in 1..Len(Big(X, Y).mats) |-> MSub(At(X, k), At(Y, k))])
TMatMul(X, Y) ==
  Tensor(Big(X, Y).batch, [k \in 1..Len(Big(X, Y).mats) |-> MMul(At(X, k), At(Y, k))])

\* c * X, X @ X.transpose(-2, -1) and X - X.transpose(-2, -1) over the batch
TScale(c, X) == Tensor(X.batch, [k \in 1..Len(X.mats) |-> MScale(c, X.mats[k])])
TGram(X) == Tensor(X.batch, [k \in 1..Len(X.mats) |-> MMul(X.mats[k], MT(X.mats[k]))])
TAntisym(X) == Tensor(X.batch, [k \in 1..Len(X.mats) |-> MSub(X.mats[k], MT(X.mats[k]))])

(***************************************************************************)
(* Errors.  VectorError, NonSquareError and InManifoldError are defined in *)
(* geotorch.exceptions as subclasses of ValueError.                        *)
(***************************************************************************)
NoError == "None"

IsValueError(e) == e \in {"ValueError", "VectorError", "NonSquareError", "InManifoldError"}

(***************************************************************************)
(* Construction.                                                           *)
(***************************************************************************)
\* the value of self while no instance exists
NoInst == [n |-> 0, tensorial_size |-> <<>>, alpha |-> Rat(0, 1), In |-> NoTensor]

\* parse_size comparing the first and the last dimension
parse_size_firstLast(size) ==
  IF Len(size) < 2
  THEN [err |-> "VectorError", n |-> 0, tensorial_size |-> <<>>]
  ELSE LET n == size[1]
           k == size[Len(size)]
           tensorial_size == SubSeq(size, 1, Len(size) - 2)
       IN IF n # k
          THEN [err |-> "NonSquareError", n |-> 0, tensorial_size |-> <<>>]
          ELSE [err |-> NoError, n |-> n, tensorial_size |-> tensorial_size]

\* Hurwitz.parse_size
parse_size(size) ==
  IF Len(size) < 2
  THEN [err |-> "VectorError", n |-> 0, tensorial_size |-> <<>>]
  ELSE LET n == size[Len(size) - 1]
           k == size[Len(size)]
           tensorial_size == SubSeq(size, 1, Len(size) - 2)
       IN IF n # k
          THEN [err |-> "NonSquareError", n |-> 0, tensorial_size |-> <<>>]
          ELSE [err |-> NoError, n |-> n, tensorial_size |-> tensorial_size]

\* __init__ refusing only alpha < 0
HurwitzInit_zeroAlpha(size, alpha) ==
  LET ps == parse_size(size)
  IN IF ps.err # NoError THEN [err |-> ps.err, inst |-> NoInst]
     ELSE IF RLess(alpha, Rat(0, 1)) THEN [err |-> "ValueError", inst |-> NoInst]
     ELSE [err |-> NoError,
           inst |-> [n |-> ps.n, tensorial_size |-> ps.tensorial_size,
                     alpha |-> alpha, In |-> T1(eye(ps.n))]]

\* Hurwitz.__init__: the error raised and the instance built (NoInst on error)
HurwitzInit(size, alpha) ==
  LET ps == parse_size(size)
  IN IF ps.err # NoError THEN [err |-> ps.err, inst |-> NoInst]
     ELSE IF RLeq(alpha, Rat(0, 1)) THEN [err |-> "ValueError", inst |-> NoInst]
     ELSE [err |-> NoError,
           inst |-> [n |-> ps.n, tensorial_size |-> ps.tensorial_size,
                     alpha |-> alpha, In |-> T1(eye(ps.n))]]

(***************************************************************************)
(* The sub-manifolds (PSD, PSD, Skew) behind ProductManifold.  Their code  *)
(* is not part of the sources at hand; they are modelled by rational maps  *)
(* with the documented contract: PSD.forward sends any square matrix to a  *)
(* positive semidefinite one through a factorization with non-negative    *)
(* spectrum factors (here L |D| L^T, L the unit lower triangle of X and D  *)
(* its diagonal), Skew.forward antisymmetrizes, and right_inverse is an    *)
(* inverse of forward on the manifold, refusing points outside it.         *)
(***************************************************************************)
PSDForward(X) ==
  IF Dim(X) = 1 THEN Mat(<<<<Abs(X.num[1][1])>>>>, X.den)
  ELSE LET L == Mat(<< <<X.den, 0>>, <<X.num[2][1], X.den>> >>, X.den)
           D == Mat(<< <<Abs(X.num[1][1]), 0>>, <<0, Abs(X.num[2][2])>> >>, X.den)
       IN MMul(MMul(L, D), MT(L))

SkewForward(X) == MScale(Rat(1, 2), MSub(X, MT(X)))

\* positive definite: the points PSD.right_inverse accepts
IsPD(A) == IsPSD(A) /\ DetNum(A) > 0

\* the unconstrained matrix whose PSDForward is the positive definite A
PSDRightInverse(A) ==
  IF Dim(A) = 1 THEN A
  ELSE LET a == A.num[1][1]
           b == A.num[2][1]
           c == A.num[2][2]
       IN \* d1 = a/den, l = b/a, d2 = (c - b*b/a)/den, over the denominator a*den
          Mat(<< <<a * a, 0>>, <<b * A.den, a * c - b * b>> >>, a * A.den)

SkewRightInverse(A) == A

\* ProductManifold.forward over (PSD, PSD, Skew)
ProductForward(Xs) ==
  <<Tensor(Xs[1].batch, [k \in 1..Len(Xs[1].mats) |-> PSDForward(Xs[1].mats[k])]),
    Tensor(Xs[2].batch, [k \in 1..Len(Xs[2].mats) |-> PSDForward(Xs[2].mats[k])]),
    Tensor(Xs[3].batch, [k \in 1..Len(Xs[3].mats) |-> SkewForward(Xs[3].mats[k])])>>

\* ProductManifold.right_inverse over (PSD, PSD, Skew), check_in_manifold = True
ProductRightInverse(Ys) ==
  IF /\ \A k \in 1..Len(Ys[1].mats) : IsPD(Ys[1].mats[k])
     /\ \A k \in 1..Len(Ys[2].mats) : IsPD(Ys[2].mats[k])
     /\ \A k \in 1..Len(Ys[3].mats) : IsSkew(Ys[3].mats[k])
  THEN [err |-> NoError,
        ret |-> <<Tensor(Ys[1].batch,
                         [k \in 1..Len(Ys[1].mats) |-> PSDRightInverse(Ys[1].mats[k])]),
                  Tensor(Ys[2].batch,
                         [k \in 1..Len(Ys[2].mats) |-> PSDRightInverse(Ys[2].mats[k])]),
                  Tensor(Ys[3].batch,
                         [k \in 1..Len(Ys[3].mats) |-> SkewRightInverse(Ys[3].mats[k])])>>]
  ELSE [err |-> "InManifoldError", ret |-> <<>>]

(***************************************************************************)
(* The forward map.                                                        *)
(***************************************************************************)
Half == Rat(1, 2)

\* submersion with the sign of the Q term lost
submersion_plusHalfQ(inst, Q, P, S) ==
  TSub(TMatMul(P, TAdd(TScale(Half, Q), S)), TScale(inst.alpha, inst.In))

\* Hurwitz.submersion: P @ (-0.5 * Q + S) - self.alpha * self.In
submersion(inst, Q, P, S) ==
  TSub(TMatMul(P, TAdd(TScale(RNeg(Half), Q), S)), TScale(inst.alpha, inst.In))

\* Hurwitz.forward
forward(inst, X1, X2, X3) ==
  LET QPS == ProductForward(<<X1, X2, X3>>)
  IN submersion(inst, QPS[1], QPS[2], QPS[3])

(***************************************************************************)
(* The membership test.                                                    *)
(***************************************************************************)
\* eps of in_manifold_eigen and epsilon of submersion_inv when the caller gives
\* none.  The source's 1e-6 and 1e-8 are kept in their order, 0 < epsilon < eps,
\* at a scale where the products stay within TLC's integers.
DefaultEps == Rat(1, 4)
DefaultEpsilon == Rat(1, 8)
DefaultSolver == "MOSEK"

\* in_manifold_eigen comparing with < instead of <=
in_manifold_eigen_run_strict(inst, A, eps) ==
  IF A.batch # inst.tensorial_size
  THEN [ret |-> FALSE, eigs |-> 0]
  ELSE [ret |-> \A k \in 1..Len(A.mats) :
                  EigRealAllLess(A.mats[k], RAdd(RNeg(inst.alpha), eps)),
        eigs |-> 1]

\* Hurwitz.in_manifold_eigen: the value returned and the number of calls of
\* torch.linalg.eigvals made
in_manifold_eigen_run(inst, A, eps) ==
  IF A.batch # inst.tensorial_size
  THEN [ret |-> FALSE, eigs |-> 0]
  ELSE [ret |-> \A k \in 1..Len(A.mats) :
                  EigRealAllLeq(A.mats[k], RAdd(RNeg(inst.alpha), eps)),
        eigs |-> 1]

in_manifold_eigen(inst, A, eps) == in_manifold_eigen_run(inst, A, eps).ret

(***************************************************************************)
(* Sampling.  init_ fills X_p, X_q, X_s in this order; its three results   *)
(* are the inputs Xp, Xq, Xs.                                              *)
(***************************************************************************)
\* sample with the roles of P and Q exchanged
sample_swapped(inst, Xp, Xq, Xs) ==
  LET P == TGram(Xp)
      Q == TGram(Xq)
      S == TAntisym(Xs)
  IN TSub(TMatMul(Q, TAdd(TScale(RNeg(Half), P), S)), TScale(inst.alpha, inst.In))

\* Hurwitz.sample
sample(inst, Xp, Xq, Xs) ==
  LET P == TGram(Xp)
      Q == TGram(Xq)
      S == TAntisym(Xs)
  IN TSub(TMatMul(P, TAdd(TScale(RNeg(Half), Q), S)), TScale(inst.alpha, inst.In))

(***************************************************************************)
(* The inverse map.  The convex solver (cvxpy) is an external capability:  *)
(* handed the constraints, it reports "optimal" with some P that satisfies *)
(* them, or "infeasible" / "unbounded" with no P.  Which feasible P it     *)
(* returns is not determined; here it is any feasible P with integer       *)
(* entries of size at most MaxP.                                           *)
(***************************************************************************)
\* A.T @ P + P @ A + 2 * self.alpha * P
Lyap(inst, A, P) ==
  MAdd(MAdd(MMul(MT(A), P), MMul(P, A)), MScale(RAdd(inst.alpha, inst.alpha), P))

\* constraints = [Q << -epsilon * I, P - epsilon * I >> 0], P a PSD variable
Constraints(inst, A, P, epsilon) ==
  /\ IsPSD(P)
  /\ IsPSD(MSub(MScale(RNeg(epsilon), eye(Dim(A))), Lyap(inst, A, P)))
  /\ IsPSD(MSub(P, MScale(epsilon, eye(Dim(A)))))

\* the answers P the model's solver can give: Variable((nx, nx), PSD=True)
PCand(n) ==
  IF n = 1 THEN {Mat(<<<<p>>>>, 1) : p \in 1..MaxP}
  ELSE {Mat(<< <<x[1], x[2]>>, <<x[2], x[3]>> >>, 1) :
          x \in {y \in (1..MaxP) \X (-MaxP..MaxP) \X (1..MaxP) : y[1] * y[3] > y[2] * y[2]}}

Feasible(inst, A, epsilon) == {P \in PCand(Dim(A)) : Constraints(inst, A, P, epsilon)}

\* prob.solve(solver): the reports the solver can end with
Solve(inst, A, epsilon, solver) ==
  LET F == Feasible(inst, A, epsilon)
  IN IF F # {} THEN {[status |-> "optimal", P |-> P] : P \in F}
     ELSE {[status |-> s, P |-> eye(Dim(A))] : s \in {"infeasible", "unbounded"}}

\* The problem has a solution exactly when every eigenvalue of A has real part
\* < -alpha (Lyapunov).  The model's solver is exact on A when it finds a P on
\* its grid whenever one exists.
GridDecides(inst, A, epsilon) ==
  \/ Feasible(inst, A, epsilon) # {}
  \/ ~EigRealAllLess(A, RNeg(inst.alpha))

\* what a call leaves behind: the error raised, the value returned, and what
\* the call did on the way
NoCall ==
  [op |-> "none", err |-> NoError, ret |-> <<>>, flag |-> FALSE, triple |-> <<>>,
   check |-> FALSE, kw |-> FALSE, eps |-> Rat(0, 1), solver |-> "",
   eigs |-> 0, solves |-> 0, status |-> "", usedSolver |-> "", usedEpsilon |-> Rat(0, 1),
   delegs |-> 0]

\* submersion_inv with the factor 0.5 of Q in S lost
submersion_inv_wholeQ(inst, A, check_in_manifold, epsilon, solver) ==
  LET gate == IF check_in_manifold THEN in_manifold_eigen_run(inst, A, epsilon)
              ELSE [ret |-> TRUE, eigs |-> 0]
      call == [NoCall EXCEPT !.op = "submersion_inv", !.check = check_in_manifold,
                             !.eps = epsilon, !.solver = solver, !.eigs = gate.eigs]
      M == A.mats[1]
      done(s) ==
        LET solved == [call EXCEPT !.solves = 1, !.status = s.status,
                                   !.usedSolver = solver, !.usedEpsilon = epsilon]
        IN IF s.status \notin {"infeasible", "unbounded"}
           THEN LET P_inv == MInv(s.P)
                    Q == MScale(Rat(-1, 1), Lyap(inst, M, s.P))
                    S == MAdd(MAdd(MMul(s.P, M), MScale(Rat(1, 1), Q)),
                              MScale(inst.alpha, s.P))
                    QPS == <<T1(Q), T1(P_inv), T1(S)>>
                IN [solved EXCEPT !.ret = QPS, !.triple = QPS]
           ELSE [solved EXCEPT !.err = "ValueError"]
  IN IF check_in_manifold /\ ~gate.ret
     THEN {[call EXCEPT !.err = "InManifoldError"]}
     ELSE {done(s) : s \in Solve(inst, M, epsilon, solver)}

\* submersion_inv that checks membership only after the solve
submersion_inv_solveFirst(inst, A, check_in_manifold, epsilon, solver) ==
  LET gate == IF check_in_manifold THEN in_manifold_eigen_run(inst, A, epsilon)
              ELSE [ret |-> TRUE, eigs |-> 0]
      call == [NoCall EXCEPT !.op = "submersion_inv", !.check = check_in_manifold,
                             !.eps = epsilon, !.solver = solver, !.eigs = gate.eigs]
      M == A.mats[1]
      done(s) ==
        LET solved == [call EXCEPT !.solves = 1, !.status = s.status,
                                   !.usedSolver = solver, !.usedEpsilon = epsilon]
        IN IF s.status \notin {"infeasible", "unbounded"}
           THEN LET P_inv == MInv(s.P)
                    Q == MScale(Rat(-1, 1), Lyap(inst, M, s.P))
                    S == MAdd(MAdd(MMul(s.P, M), MScale(Half, Q)),
                              MScale(inst.alpha, s.P))
                    QPS == <<T1(Q), T1(P_inv), T1(S)>>
                IN [solved EXCEPT !.ret = QPS, !.triple = QPS]
           ELSE [solved EXCEPT !.err = "ValueError"]
  IN IF check_in_manifold /\ ~gate.ret
     THEN {[call EXCEPT !.err = "InManifoldError", !.solves = 1, !.status = s.status,
                        !.usedSolver = solver, !.usedEpsilon = epsilon] :
             s \in Solve(inst, M, epsilon, solver)}
     ELSE {done(s) : s \in Solve(inst, M, epsilon, solver)}

\* submersion_inv that solves with the default solver and margin
submersion_inv_defaults(inst, A, check_in_manifold, epsilon, solver) ==
  LET gate == IF check_in_manifold THEN in_manifold_eigen_run(inst, A, epsilon)
              ELSE [ret |-> TRUE, eigs |-> 0]
      call == [NoCall EXCEPT !.op = "submersion_inv", !.check = check_in_manifold,
                             !.eps = epsilon, !.solver = solver, !.eigs = gate.eigs]
      M == A.mats[1]
      done(s) ==
        LET solved == [call EXCEPT !.solves = 1, !.status = s.status,
                                   !.usedSolver = DefaultSolver, !.usedEpsilon = DefaultEpsilon]
        IN IF s.status \notin {"infeasible", "unbounded"}
           THEN LET P_inv == MInv(s.P)
                    Q == MScale(Rat(-1, 1), Lyap(inst, M, s.P))
                    S == MAdd(MAdd(MMul(s.P, M), MScale(Half, Q)),
                              MScale(inst.alpha, s.P))
                    QPS == <<T1(Q), T1(P_inv), T1(S)>>
                IN [solved EXCEPT !.ret = QPS, !.triple = QPS]
           ELSE [solved EXCEPT !.err = "ValueError"]
  IN IF check_in_manifold /\ ~gate.ret
     THEN {[call EXCEPT !.err = "InManifoldError"]}
     ELSE {done(s) : s \in Solve(inst, M, DefaultEpsilon, DefaultSolver)}

\* submersion_inv that solves a second time after a failed solve
submersion_inv_retry(inst, A, check_in_manifold, epsilon, solver) ==
  LET gate == IF check_in_manifold THEN in_manifold_eigen_run(inst, A, epsilon)
              ELSE [ret |-> TRUE, eigs |-> 0]
      call == [NoCall EXCEPT !.op = "submersion_inv", !.check = check_in_manifold,
                             !.eps = epsilon, !.solver = solver, !.eigs = gate.eigs]
      M == A.mats[1]
      done(s) ==
        LET solved == [call EXCEPT !.solves = 1, !.status = s.status,
                                   !.usedSolver = solver, !.usedEpsilon = epsilon]
        IN IF s.status \notin {"infeasible", "unbounded"}
           THEN LET P_inv == MInv(s.P)
                    Q == MScale(Rat(-1, 1), Lyap(inst, M, s.P))
                    S == MAdd(MAdd(MMul(s.P, M), MScale(Half, Q)),
                              MScale(inst.alpha, s.P))
                    QPS == <<T1(Q), T1(P_inv), T1(S)>>
                IN [solved EXCEPT !.ret = QPS, !.triple = QPS]
           ELSE [solved EXCEPT !.err = "ValueError", !.solves = 2]
  IN IF check_in_manifold /\ ~gate.ret
     THEN {[call EXCEPT !.err = "InManifoldError"]}
     ELSE {done(s) : s \in Solve(inst, M, epsilon, solver)}

\* Hurwitz.submersion_inv: the ways a call can end
submersion_inv(inst, A, check_in_manifold, epsilon, solver) ==
  LET gate == IF check_in_manifold THEN in_manifold_eigen_run(inst, A, epsilon)
              ELSE [ret |-> TRUE, eigs |-> 0]
      call == [NoCall EXCEPT !.op = "submersion_inv", !.check = check_in_manifold,
                             !.eps = epsilon, !.solver = solver, !.eigs = gate.eigs]
      M == A.mats[1]
      done(s) ==
        LET solved == [call EXCEPT !.solves = 1, !.status = s.status,
                                   !.usedSolver = solver, !.usedEpsilon = epsilon]
        IN IF s.status \notin {"infeasible", "unbounded"}
           THEN LET P_inv == MInv(s.P)
                    Q == MScale(Rat(-1, 1), Lyap(inst, M, s.P))
                    S == MAdd(MAdd(MMul(s.P, M), MScale(Half, Q)),
                              MScale(inst.alpha, s.P))
                    QPS == <<T1(Q), T1(P_inv), T1(S)>>
                IN [solved EXCEPT !.ret = QPS, !.triple = QPS]
           ELSE [solved EXCEPT !.err = "ValueError"]
  IN IF check_in_manifold /\ ~gate.ret
     THEN {[call EXCEPT !.err = "InManifoldError"]}
     ELSE {done(s) : s \in Solve(inst, M, epsilon, solver)}

\* Hurwitz.right_inverse: the ways a call can end
right_inverse(inst, A, check_in_manifold) ==
  LET then(o) ==
        IF o.err # NoError THEN o
        ELSE LET pr == ProductRightInverse(o.ret)
             IN [o EXCEPT !.delegs = 1, !.err = pr.err, !.ret = pr.ret]
  IN {[then(o) EXCEPT !.op = "right_inverse", !.eps = Rat(0, 1), !.solver = ""] :
        o \in submersion_inv(inst, A, check_in_manifold, DefaultEpsilon, DefaultSolver)}

\* the inverse path works on one matrix: tensorial_size is empty and A is n x n,
\* or the membership gate refuses A for its batch shape
InverseApplies(inst, A, check_in_manifold) ==
  \/ check_in_manifold /\ A.batch # inst.tensorial_size
  \/ /\ inst.tensorial_size = <<>>
     /\ A.batch = <<>>
     /\ Dim(A.mats[1]) = inst.n

(***************************************************************************)
(* Inputs.                                                                 *)
(***************************************************************************)
Sizes == UNION {[1..k -> 1..MaxDim] : k \in 0..MaxRank}

Alphas == {Rat(k, 4) : k \in {-MaxAlpha, -1, 0, 1, MaxAlpha}}
PosAlphas == {a \in Alphas : a.num > 0}

\* the sizes of the instances that are called: 1x1, 2x2, and a batch of two 1x1
CallSizes == {<<1, 1>>, <<2, 2>>, <<2, 1, 1>>}

TensorsOf(batch, S) == {Tensor(batch, ms) : ms \in [1..Numel(batch) -> S]}

\* lower triangular integer matrices with diagonal in D and lower entry in L
LowerTri(n, D, L) ==
  IF n = 1 THEN {Mat(<<<<d>>>>, 1) : d \in D}
  ELSE {Mat(<< <<d1, 0>>, <<l, d2>> >>, 1) : d1 \in D, d2 \in D, l \in L}

\* The unconstrained inputs.  The sub-manifold maps and sample's products read
\* a matrix through its lower triangle, so the inputs are lower triangular.  The
\* second input has a non-negative lower entry and the third a zero diagonal:
\* conjugating by diag(1, -1) flips the off-diagonal signs of all three factors
\* and keeps the eigenvalues, and the diagonal cancels in X - X^T.
X1Set(n) == LowerTri(n, 0..MaxEntry, -MaxEntry..MaxEntry)
X2Set(n) == LowerTri(n, 0..MaxEntry, 0..MaxEntry)
X3Set(n) == LowerTri(n, {0}, -MaxEntry..MaxEntry)

Triples(n, batch) ==
  {<<a, b, c>> : a \in TensorsOf(batch, X1Set(n)), b \in TensorsOf(batch, X2Set(n)),
                 c \in TensorsOf(batch, X3Set(n))}

\* target matrices
AMats(n) == {Mat(num, 1) : num \in [1..n -> [1..n -> -MaxA..MaxA]]}

ATensors ==
  TensorsOf(<<>>, AMats(1)) \cup TensorsOf(<<>>, AMats(2)) \cup TensorsOf(<<2>>, AMats(1))

\* tolerances and solver names a caller passes
EpsSet == {Rat(0, 1), DefaultEpsilon, DefaultEps}
EpsilonSet == {DefaultEpsilon, DefaultEps}
Solvers == {"MOSEK", "SCS"}

NoMemo == [fwd |-> <<>>, eig |-> <<>>]

(***************************************************************************)
(* Operations.  req holds the constructor's arguments and the three        *)
(* unconstrained tensors of the run, pt the matrix the caller holds (the   *)
(* latest result of forward or sample, or a target given from outside),    *)
(* last the latest call, memo the first result of forward and of           *)
(* in_manifold_eigen.                                                      *)
(***************************************************************************)
\* Hurwitz(size, alpha)
Construct ==
  /\ self = NoInst
  /\ raised = NoError
  /\ LET r == HurwitzInit(req.size, req.alpha)
     IN /\ self' = r.inst
        /\ raised' = r.err
  /\ UNCHANGED <<req, pt, last, memo>>

\* M.forward(X1, X2, X3)
Forward ==
  /\ self # NoInst
  /\ req.X # <<>>
  /\ LET out == forward(self, req.X[1], req.X[2], req.X[3])
     IN /\ last' = [NoCall EXCEPT !.op = "forward", !.ret = <<out>>]
        /\ pt' = out
        /\ memo' = IF memo.fwd = <<>> THEN [memo EXCEPT !.fwd = <<out>>] ELSE memo
  /\ UNCHANGED <<req, self, raised>>

\* M.sample(init_), init_ filling its three tensors with req.X
Sample ==
  /\ self # NoInst
  /\ req.X # <<>>
  /\ LET out == sample(self, req.X[1], req.X[2], req.X[3])
     IN /\ last' = [NoCall EXCEPT !.op = "sample", !.ret = <<out>>]
        /\ pt' = out
  /\ UNCHANGED <<req, self, raised, memo>>

\* in_manifold_eigen computing its bound -alpha + eps in place, in self.alpha
InManifoldEigen_inPlace ==
  /\ self # NoInst
  /\ pt # NoTensor
  /\ \E eps \in EpsSet :
       LET r == in_manifold_eigen_run(self, pt, eps)
       IN /\ last' = [NoCall EXCEPT !.op = "in_manifold_eigen", !.eps = eps,
                                    !.flag = r.ret, !.eigs = r.eigs]
          /\ self' = [self EXCEPT !.alpha = RAdd(RNeg(self.alpha), eps)]
          /\ memo' = IF memo.eig = <<>>
                     THEN [memo EXCEPT !.eig = <<[A |-> pt, eps |-> eps, ret |-> r.ret]>>]
                     ELSE memo
  /\ UNCHANGED <<req, raised, pt>>

\* M.in_manifold_eigen(pt, eps)
InManifoldEigen ==
  /\ self # NoInst
  /\ pt # NoTensor
  /\ \E eps \in EpsSet :
       LET r == in_manifold_eigen_run(self, pt, eps)
       IN /\ last' = [NoCall EXCEPT !.op = "in_manifold_eigen", !.eps = eps,
                                    !.flag = r.ret, !.eigs = r.eigs]
          /\ memo' = IF memo.eig = <<>>
                     THEN [memo EXCEPT !.eig = <<[A |-> pt, eps |-> eps, ret |-> r.ret]>>]
                     ELSE memo
  /\ UNCHANGED <<req, self, raised, pt>>

\* M.submersion_inv(pt, check_in_manifold, epsilon, solver)
SubmersionInv ==
  /\ self # NoInst
  /\ pt # NoTensor
  /\ \E check \in BOOLEAN, epsilon \in EpsilonSet :
       /\ InverseApplies(self, pt, check)
       /\ \A k \in 1..Len(pt.mats) : GridDecides(self, pt.mats[k], epsilon)
       /\ \E solver \in Solvers : last' \in submersion_inv(self, pt, check, epsilon, solver)
  /\ UNCHANGED <<req, self, raised, pt, memo>>

\* M.right_inverse(pt, check_in_manifold), or the same call with solver= and
\* epsilon= added: right_inverse takes no such arguments, and that call ends in
\* Python's TypeError before the body runs
RightInverse ==
  /\ self # NoInst
  /\ pt # NoTensor
  /\ \E check \in BOOLEAN :
       /\ InverseApplies(self, pt, check)
       /\ \A k \in 1..Len(pt.mats) : GridDecides(self, pt.mats[k], DefaultEpsilon)
       /\ \/ last' \in right_inverse(self, pt, check)
          \/ \E epsilon \in EpsilonSet, solver \in Solvers :
               last' = [NoCall EXCEPT !.op = "right_inverse", !.check = check, !.kw = TRUE,
                                      !.eps = epsilon, !.solver = solver,
                                      !.err = "TypeError"]
  /\ UNCHANGED <<req, self, raised, pt, memo>>

(***************************************************************************)
(* Specifications.                                                         *)
(***************************************************************************)
Built(size, alpha) == HurwitzInit(size, alpha).inst

\* constructor arguments with three unconstrained tensors of the size's shape
CallRequests(sizes, alphas) ==
  UNION {{[size |-> s, alpha |-> a, X |-> X] :
            a \in alphas,
            X \in Triples(parse_size(s).n, parse_size(s).tensorial_size)} :
         s \in sizes}

\* The life of an instance: construction, from good and bad arguments, then any
\* calls in any order, on 1x1 matrices and batches of them.  The caller first
\* holds the tensor X1 and later what forward and sample return.
LifeSizes == {<<1, 1>>, <<2, 1, 1>>}
BadSizes == {<<1>>, <<1, 2>>}

Init ==
  /\ req \in CallRequests(LifeSizes, Alphas)
             \cup {[size |-> s, alpha |-> a, X |-> <<>>] : s \in BadSizes, a \in Alphas}
  /\ self = NoInst
  /\ raised = NoError
  /\ pt = IF req.X = <<>> THEN NoTensor ELSE req.X[1]
  /\ last = NoCall
  /\ memo = NoMemo

Next == Construct \/ Forward \/ Sample \/ InManifoldEigen \/ SubmersionInv \/ RightInverse

Spec == Init /\ [][Next]_vars

\* the constructor alone, on every size and alpha
InitCtor ==
  /\ req \in {[size |-> s, alpha |-> a, X |-> <<>>] : s \in Sizes, a \in Alphas}
  /\ self = NoInst
  /\ raised = NoError
  /\ pt = NoTensor
  /\ last = NoCall
  /\ memo = NoMemo

SpecCtor == InitCtor /\ [][Construct]_vars

\* forward and sample on a built instance
InitForward ==
  /\ req \in CallRequests(CallSizes, PosAlphas)
  /\ self = Built(req.size, req.alpha)
  /\ raised = NoError
  /\ pt = NoTensor
  /\ last = NoCall
  /\ memo = NoMemo

SpecForward == InitForward /\ [][Forward \/ Sample]_vars

\* the membership test on a built instance and any target
InitEigen ==
  /\ req \in {[size |-> s, alpha |-> a, X |-> <<>>] : s \in CallSizes, a \in PosAlphas}
  /\ self = Built(req.size, req.alpha)
  /\ raised = NoError
  /\ pt \in ATensors
  /\ last = NoCall
  /\ memo = NoMemo

SpecEigen == InitEigen /\ [][InManifoldEigen]_vars

\* the inverse map on a built unbatched instance and any target: one call per run
InitInverse ==
  /\ req \in {[size |-> s, alpha |-> a, X |-> <<>>] :
                s \in {<<1, 1>>, <<2, 2>>}, a \in PosAlphas}
  /\ self = Built(req.size, req.alpha)
  /\ raised = NoError
  /\ pt \in ATensors
  /\ last = NoCall
  /\ memo = NoMemo

NextInverse ==
  \/ last = NoCall /\ SubmersionInv
  \/ last = NoCall /\ RightInverse

SpecInverse == InitInverse /\ [][NextInverse]_vars

(***************************************************************************)
(* Properties.                                                             *)
(***************************************************************************)
\* the constructor has run: it built an instance or raised
Constructed == self # NoInst \/ raised # NoError

\* the size describes a square matrix
IsSquareSize(size) == Len(size) >= 2 /\ size[Len(size) - 1] = size[Len(size)]

\* C3: for a size that describes a square matrix, construction with alpha <= 0
\* (alpha = 0 included) raises ValueError and leaves no instance; with alpha > 0
\* it raises nothing and builds the instance with that alpha.
C3_AlphaMustBePositive ==
  (Constructed /\ IsSquareSize(req.size)) =>
     IF req.alpha.num <= 0
     THEN raised = "ValueError" /\ self = NoInst
     ELSE raised = NoError /\ self # NoInst /\ self.alpha = req.alpha

C3_Witness ==
  /\ Constructed
  /\ req.size = <<3, 3>>
  /\ req.alpha.num = 0
  /\ raised = "ValueError"

\* C4: construction fails with VectorError exactly when the size has fewer than
\* 2 dimensions and with NonSquareError exactly when it has at least 2 and the
\* last two differ, whatever alpha is; both are ValueErrors; otherwise
\* parse_size returns n = the last dimension and tensorial_size = the
\* dimensions before the last two, which are what a built instance holds.
C4_SizeErrors ==
  Constructed =>
    /\ (raised = "VectorError") <=> (Len(req.size) < 2)
    /\ (raised = "NonSquareError") <=>
         (Len(req.size) >= 2 /\ req.size[Len(req.size) - 1] # req.size[Len(req.size)])
    /\ raised \in {"VectorError", "NonSquareError"} => IsValueError(raised) /\ self = NoInst
    /\ IsSquareSize(req.size) =>
         /\ parse_size(req.size).err = NoError
         /\ parse_size(req.size).n = req.size[Len(req.size)]
         /\ parse_size(req.size).tensorial_size = SubSeq(req.size, 1, Len(req.size) - 2)
         /\ self # NoInst =>
              /\ self.n = req.size[Len(req.size)]
              /\ self.tensorial_size = SubSeq(req.size, 1, Len(req.size) - 2)

\* a non-square size with a leading dimension, and an alpha that is invalid too
C4_Witness ==
  /\ Constructed
  /\ req.size = <<3, 3, 2>>
  /\ req.alpha.num < 0
  /\ raised = "NonSquareError"

\* the matrix M + alpha * I
PlusAlphaI(inst, M) == MAdd(M, MScale(inst.alpha, eye(Dim(M))))

\* a 2x2 matrix with a pair of complex eigenvalues
HasComplexEigs(M) == Dim(M) = 2 /\ TrNum(M) * TrNum(M) < 4 * DetNum(M)

\* C1: for every instance and every triple of unconstrained inputs of its
\* shape, forward returns P(-Q/2 + S) - alpha I with Q, P positive semidefinite
\* and S skew-symmetric (the sub-manifolds' outputs), and that matrix passes
\* in_manifold_eigen: every eigenvalue has real part <= -alpha.
C1_ForwardInManifold ==
  last.op = "forward" =>
    LET out == last.ret[1]
        QPS == ProductForward(req.X)
    IN /\ out.batch = self.tensorial_size
       /\ \A k \in 1..Len(out.mats) :
            LET Q == QPS[1].mats[k]
                P == QPS[2].mats[k]
                S == QPS[3].mats[k]
            IN /\ IsSymmetric(Q) /\ IsPSD(Q)
               /\ IsSymmetric(P) /\ IsPSD(P)
               /\ IsSkew(S)
               /\ PlusAlphaI(self, out.mats[k]) = MMul(P, MAdd(MScale(RNeg(Half), Q), S))
               /\ EigRealAllLeq(out.mats[k], RNeg(self.alpha))
       /\ in_manifold_eigen(self, out, Rat(0, 1))
       /\ in_manifold_eigen(self, out, DefaultEps)

\* forward on a 2x2 instance whose result is not symmetric and has complex
\* eigenvalues
C1_Witness ==
  /\ last.op = "forward"
  /\ self.n = 2
  /\ ~IsSymmetric(last.ret[1].mats[1])
  /\ HasComplexEigs(last.ret[1].mats[1])
  /\ in_manifold_eigen(self, last.ret[1], DefaultEps)

\* C9: for the initializer's outputs X_p, X_q, X_s, sample returns exactly
\* submersion(Q, P, S) with P = X_p X_p^T, Q = X_q X_q^T, S = X_s - X_s^T, and
\* the sample passes in_manifold_eigen.
C9_SampleIsSubmersion ==
  last.op = "sample" =>
    LET P == TGram(req.X[1])
        Q == TGram(req.X[2])
        S == TAntisym(req.X[3])
    IN /\ last.ret[1] = submersion(self, Q, P, S)
       /\ in_manifold_eigen(self, last.ret[1], Rat(0, 1))
       /\ in_manifold_eigen(self, last.ret[1], DefaultEps)

\* a 2x2 sample where P and Q differ and S is not zero
C9_Witness ==
  /\ last.op = "sample"
  /\ self.n = 2
  /\ MMul(req.X[1].mats[1], MT(req.X[1].mats[1])) # MMul(req.X[2].mats[1], MT(req.X[2].mats[1]))
  /\ req.X[3].mats[1] # MT(req.X[3].mats[1])
  /\ ~IsSymmetric(last.ret[1].mats[1])

\* Every eigenvalue of M has real part <= t, decided without the eigenvalues:
\* with B = M - t I, a 1x1 B has its entry <= 0, and a 2x2 B has trace <= 0
\* and determinant >= 0.  B is scaled by the positive number M.den * t.den.
ShiftedEntry(M, t, i, j) ==
  M.num[i][j] * t.den - (IF i = j THEN t.num * M.den ELSE 0)

AllRealPartsLeq(M, t) ==
  IF Dim(M) = 1 THEN ShiftedEntry(M, t, 1, 1) <= 0
  ELSE /\ ShiftedEntry(M, t, 1, 1) + ShiftedEntry(M, t, 2, 2) <= 0
       /\ ShiftedEntry(M, t, 1, 1) * ShiftedEntry(M, t, 2, 2)
            - ShiftedEntry(M, t, 1, 2) * ShiftedEntry(M, t, 2, 1) >= 0

\* C6: in_manifold_eigen(A, eps) returns false, without computing eigenvalues,
\* whenever the batch shape of A differs from tensorial_size; otherwise it
\* computes them and returns true exactly when every eigenvalue of every batch
\* element has real part <= -alpha + eps.
C6_EigenTest ==
  last.op = "in_manifold_eigen" =>
    IF pt.batch # self.tensorial_size
    THEN last.flag = FALSE /\ last.eigs = 0
    ELSE /\ last.eigs = 1
         /\ last.flag <=>
              \A k \in 1..Len(pt.mats) :
                AllRealPartsLeq(pt.mats[k], RAdd(RNeg(self.alpha), last.eps))

\* a 2x2 non-diagonal matrix with an eigenvalue exactly on the bound -alpha + eps
C6_Witness ==
  /\ last.op = "in_manifold_eigen"
  /\ pt.batch = self.tensorial_size
  /\ Dim(pt.mats[1]) = 2
  /\ pt.mats[1].num[1][2] # 0
  /\ last.flag
  /\ ~EigRealAllLess(pt.mats[1], RAdd(RNeg(self.alpha), last.eps))

\* a call of right_inverse(A, check_in_manifold) as its signature allows it
IsRightInverseCall == last.op = "right_inverse" /\ ~last.kw

\* the call returned the triple (Q, P^-1, S) of submersion_inv
TripleBuilt == last.op \in {"right_inverse", "submersion_inv"} /\ last.triple # <<>>

C5_GateBeforeSolve ==
  (/\ IsRightInverseCall
   /\ last.check
   /\ \/ ~in_manifold_eigen(self, pt, DefaultEps)
      \/ ~in_manifold_eigen(self, pt, DefaultEpsilon)) =>
     /\ last.err = "InManifoldError"
     /\ last.solves = 0
     /\ last.status = ""
     /\ last.triple = <<>>
     /\ last.ret = <<>>
     /\ last.delegs = 0

\* a 2x2 matrix of the instance's shape with an eigenvalue above the bound
C5_Witness ==
  /\ IsRightInverseCall
  /\ last.check
  /\ pt.batch = self.tensorial_size
  /\ self.n = 2
  /\ last.eigs = 1
  /\ ~in_manifold_eigen(self, pt, DefaultEps)
  /\ last.err = "InManifoldError"
  /\ last.solves = 0

\* C7 as stated: a caller of right_inverse can pass the solver and the margin,
\* and the solve uses the values passed.
C7_RightInverseTakesSolver ==
  (last.op = "right_inverse" /\ last.kw) =>
     /\ last.err # "TypeError"
     /\ last.solves = 1 => last.usedSolver = last.solver /\ last.usedEpsilon = last.eps

\* C7 amended: the solver and the margin of the solve are the ones supplied to
\* submersion_inv, whose constraints hold of the P it gets with that margin;
\* right_inverse accepts neither (a call that passes them ends in TypeError
\* with no solve) and always solves with solver "MOSEK" and the default margin
\* of submersion_inv.
C7_SolverAndMarginOfSubmersionInv ==
  /\ (last.op = "submersion_inv" /\ last.solves > 0) =>
       /\ last.usedSolver = last.solver
       /\ last.usedEpsilon = last.eps
       /\ last.triple # <<>> =>
            Constraints(self, pt.mats[1], MInv(last.triple[2].mats[1]), last.eps)
  /\ (last.op = "right_inverse" /\ last.kw) =>
       last.err = "TypeError" /\ last.solves = 0 /\ last.ret = <<>>
  /\ (IsRightInverseCall /\ last.solves > 0) =>
       /\ last.usedSolver = DefaultSolver
       /\ last.usedEpsilon = DefaultEpsilon
       /\ last.triple # <<>> =>
            Constraints(self, pt.mats[1], MInv(last.triple[2].mats[1]), DefaultEpsilon)

\* submersion_inv called with a solver and a margin that are not the defaults,
\* and the solve succeeded
C7_Witness ==
  /\ last.op = "submersion_inv"
  /\ last.solver = "SCS"
  /\ last.eps = DefaultEps
  /\ last.status = "optimal"
  /\ last.usedSolver = "SCS"
  /\ last.usedEpsilon = DefaultEps

\* C8: within one right_inverse / submersion_inv call the solver is invoked at
\* most once; when the solve ends infeasible or unbounded the call raises
\* ValueError after that single solve, builds and returns no triple and does
\* not reach the sub-manifolds' right_inverse; ValueError has no other origin.
C8_SolverFailureIsFatal ==
  last.op \in {"right_inverse", "submersion_inv"} =>
    /\ last.solves <= 1
    /\ (last.solves = 0) <=> (last.status = "")
    /\ last.status \in {"infeasible", "unbounded"} =>
         /\ last.err = "ValueError"
         /\ IsValueError(last.err)
         /\ last.solves = 1
         /\ last.triple = <<>>
         /\ last.ret = <<>>
         /\ last.delegs = 0
    /\ last.err = "ValueError" => last.status \in {"infeasible", "unbounded"}
    /\ last.status = "optimal" => last.err # "ValueError" /\ last.triple # <<>>

\* right_inverse with the membership check on, for a 2x2 matrix that passes the
\* check, and the solver reports the problem infeasible
C8_Witness ==
  /\ IsRightInverseCall
  /\ last.check
  /\ self.n = 2
  /\ last.eigs = 1
  /\ last.status = "infeasible"
  /\ last.err = "ValueError"

\* C10: calls of forward, right_inverse (returning or raising), submersion_inv,
\* sample and in_manifold_eigen leave n, tensorial_size, alpha and the cached
\* identity of a constructed instance unchanged; alpha > 0 in every state of a
\* constructed instance; and forward and in_manifold_eigen repeated with the
\* same inputs give the result of their first call.
C10_ConfigurationFrozen ==
  /\ [][self # NoInst => self' = self]_vars
  /\ [](self # NoInst =>
          /\ self.alpha.num > 0
          /\ self = Built(req.size, req.alpha)
          /\ self.In = T1(eye(self.n)))
  /\ []((last.op = "forward") => last.ret = memo.fwd)
  /\ []((/\ last.op = "in_manifold_eigen"
         /\ pt = memo.eig[1].A
         /\ last.eps = memo.eig[1].eps) => last.flag = memo.eig[1].ret)

\* forward and in_manifold_eigen have been called, the matrix held has changed
\* since the first membership test, and right_inverse has just raised
C10_Witness ==
  /\ self # NoInst
  /\ memo.fwd # <<>>
  /\ memo.eig # <<>>
  /\ memo.eig[1].A # pt
  /\ IsRightInverseCall
  /\ last.err = "ValueError"

====
